---- MODULE Spec2Model ----
(***************************************************************************)
(* Bodygraph derivation engine of the Human Design calculator.             *)
(*                                                                         *)
(* The model follows src/calculations.py: the static tables of             *)
(* src/constants.py, their doubly-oriented expansion FULL_DICT, the angle  *)
(* mapper date_to_gate, the channel/center builder                         *)
(* get_channels_and_centers and the feature functions, all run by the one  *)
(* public operation calculate_human_design.                                *)
(*                                                                         *)
(* Python dicts are insertion-ordered: a dict is a sequence of             *)
(* <<key, value>> entries.  Longitudes are integers in units of 1/192      *)
(* degree, so that one turn is 69120 = 64*6*6*6*5 units and every quotient *)
(* taken by date_to_gate is exact.  A raised Python exception is the       *)
(* boolean field exc of an operator's result.                              *)
(*                                                                         *)
(* ephem holds the longitudes swe.calc_ut answers at 0h UTC of the birth   *)
(* day and of the design day; times are hours from 0h UTC of the birth     *)
(* day.  hash_seed stands for the string hashing of the interpreter        *)
(* process, which fixes the order in which a set of strings is listed.     *)
(***************************************************************************)
EXTENDS Integers, Sequences, FiniteSets, TLC

VARIABLES ephem, timestamp, timezone_info, hash_seed, process, birth_julday, pc, results,
          previous, error, call_args, connected

vars == <<ephem, timestamp, timezone_info, hash_seed, process, birth_julday, pc, results,
         previous, error, call_args, connected>>

(***************************************************************************)
(* Bounds of the model.                                                    *)
(***************************************************************************)
\* number of bodies whose longitude varies (alternating birth / design)
NumFree == 4

\* number of gates of PoolGates a varying body can stand in
PoolSize == 6

\* number of gates the birth Sun can stand in, in InitCross
NumSunGates == 5

\* number of bodies that stand either with their Sun or in a gate of their
\* own, in InitToggle
NumToggles == 12

\* number of string hashings a process can have
NumSeeds == 2

\* number of local hours of birth
NumHours == 2

(***************************************************************************)
(* src/constants.py                                                        *)
(***************************************************************************)
ICHING_OFFSET == 58

ICHING_CIRCLE_LIST ==
  << 41, 19, 13, 49, 30, 55, 37, 63, 22, 36, 25, 17, 21, 51, 42, 3,
     27, 24, 2, 23, 8, 20, 16, 35, 45, 12, 15, 52, 39, 53, 62, 56,
     31, 33, 7, 4, 29, 59, 40, 64, 47, 6, 46, 18, 48, 57, 32, 50,
     28, 44, 1, 43, 14, 34, 9, 5, 26, 11, 10, 58, 38, 54, 61, 60 >>

CHAKRA_LIST ==
  << "HD", "AA", "TT", "GC", "HT", "SP", "SN", "SL", "RT" >>

GATES_CHAKRA_DICT ==
  << << <<64, 47>>, <<"HD", "AA">> >>,
     << <<61, 24>>, <<"HD", "AA">> >>,
     << <<63, 4>>, <<"HD", "AA">> >>,
     << <<17, 62>>, <<"AA", "TT">> >>,
     << <<43, 23>>, <<"AA", "TT">> >>,
     << <<11, 56>>, <<"AA", "TT">> >>,
     << <<16, 48>>, <<"TT", "SN">> >>,
     << <<20, 57>>, <<"TT", "SN">> >>,
     << <<20, 34>>, <<"TT", "SL">> >>,
     << <<20, 10>>, <<"TT", "GC">> >>,
     << <<31, 7>>, <<"TT", "GC">> >>,
     << <<8, 1>>, <<"TT", "GC">> >>,
     << <<33, 13>>, <<"TT", "GC">> >>,
     << <<45, 21>>, <<"TT", "HT">> >>,
     << <<35, 36>>, <<"TT", "SP">> >>,
     << <<12, 22>>, <<"TT", "SP">> >>,
     << <<32, 54>>, <<"SN", "RT">> >>,
     << <<28, 38>>, <<"SN", "RT">> >>,
     << <<57, 34>>, <<"SN", "SL">> >>,
     << <<50, 27>>, <<"SN", "SL">> >>,
     << <<18, 58>>, <<"SN", "RT">> >>,
     << <<10, 34>>, <<"GC", "SL">> >>,
     << <<15, 5>>, <<"GC", "SL">> >>,
     << <<2, 14>>, <<"GC", "SL">> >>,
     << <<46, 29>>, <<"GC", "SL">> >>,
     << <<10, 57>>, <<"GC", "SN">> >>,
     << <<25, 51>>, <<"GC", "HT">> >>,
     << <<59, 6>>, <<"SL", "SP">> >>,
     << <<42, 53>>, <<"SL", "RT">> >>,
     << <<3, 60>>, <<"SL", "RT">> >>,
     << <<9, 52>>, <<"SL", "RT">> >>,
     << <<26, 44>>, <<"HT", "SN">> >>,
     << <<40, 37>>, <<"HT", "SP">> >>,
     << <<49, 19>>, <<"SP", "RT">> >>,
     << <<55, 39>>, <<"SP", "RT">> >>,
     << <<30, 41>>, <<"SP", "RT">> >> >>

CHANNEL_MEANING_DICT ==
  << << <<64, 47>>, <<"Abstraction", "D. of mental activity and clarity">> >>,
     << <<61, 24>>, <<"Awereness", "D. of a thinker">> >>,
     << <<63, 4>>, <<"Logic", "D. of mental muse? mixed with doubt">> >>,
     << <<17, 62>>, <<"Acceptance", "D. of an organizational being">> >>,
     << <<43, 23>>, <<"Structuring", "D. of individuality">> >>,
     << <<11, 56>>, <<"Curiosity", "D. of a searcher">> >>,
     << <<16, 48>>, <<"The Wave Length", "D. of a talent">> >>,
     << <<20, 57>>, <<"The Brain Wave", "D. of penetrating awareness">> >>,
     << <<20, 34>>, <<"Charisma", "D. where thoughts must become deeds">> >>,
     << <<32, 54>>, <<"Transformation", "D. of being driven">> >>,
     << <<28, 38>>, <<"Struggle", "D. of stubbornness ">> >>,
     << <<18, 58>>, <<"Judgment", "D. of insatiability">> >>,
     << <<20, 10>>, <<"Awakening", "D. of commitment to higher principles">> >>,
     << <<31, 7>>, <<"The Alpha", "For 'good' or 'bad', a d. of leadership">> >>,
     << <<8, 1>>, <<"Inspiration", "The creative role model">> >>,
     << <<33, 13>>, <<"The Prodigal", "The d. of witness">> >>,
     << <<10, 34>>, <<"Exploration", "A d. of following one's convictions">> >>,
     << <<15, 5>>, <<"Rythm", "A d. of being in the flow">> >>,
     << <<2, 14>>, <<"The Beat", "A d. of being the keeper of keys">> >>,
     << <<46, 29>>, <<"Discovery", "A d. of succeding where others fail">> >>,
     << <<10, 57>>, <<"Perfected Form", "A d. of survival">> >>,
     << <<57, 34>>, <<"Power", "A d. of an archetype">> >>,
     << <<50, 27>>, <<"Preservation", "A. d. of custodianship">> >>,
     << <<45, 21>>, <<"Money", "A d. of a materialist">> >>,
     << <<59, 6>>, <<"Mating", "A d. focused on reproduction">> >>,
     << <<42, 53>>, <<"Maturation", "A d. of balanced developement,cyclic">> >>,
     << <<3, 60>>, <<"Mutation", "Energy which fluctuates and initiates, pulse">> >>,
     << <<9, 52>>, <<"Concentration", "A d. of determination, focused">> >>,
     << <<26, 44>>, <<"Surrender", "A d. of a transmitter">> >>,
     << <<25, 51>>, <<"Initiation", "A d. of needing to be first">> >>,
     << <<40, 37>>, <<"Community", "A d. of being part, seeking a whole">> >>,
     << <<35, 36>>, <<"Transitoriness", "A d. of a 'Jack of all Trades'">> >>,
     << <<12, 22>>, <<"Openness", "A d, of a social being">> >>,
     << <<49, 19>>, <<"Synthesis", "A d. of being sensitive">> >>,
     << <<55, 39>>, <<"Emoting", "A d. of moodiness">> >>,
     << <<30, 41>>, <<"Recognition", "A d. of focused energy">> >> >>

IC_CROSS_TYP ==
  << << <<1, 3>>, "RAC" >>,
     << <<1, 4>>, "RAC" >>,
     << <<2, 4>>, "RAC" >>,
     << <<2, 5>>, "RAC" >>,
     << <<3, 5>>, "RAC" >>,
     << <<3, 6>>, "RAC" >>,
     << <<4, 6>>, "RAC" >>,
     << <<4, 1>>, "JXP" >>,
     << <<5, 1>>, "LAC" >>,
     << <<5, 2>>, "LAC" >>,
     << <<6, 2>>, "LAC" >>,
     << <<6, 3>>, "LAC" >> >>

SWE_PLANET_DICT ==
  << << "Sun", 0 >>,
     << "Earth", 0 >>,
     << "Moon", 1 >>,
     << "North_Node", 11 >>,
     << "South_Node", 11 >>,
     << "Mercury", 2 >>,
     << "Venus", 3 >>,
     << "Mars", 4 >>,
     << "Jupiter", 5 >>,
     << "Saturn", 6 >>,
     << "Uranus", 7 >>,
     << "Neptune", 8 >>,
     << "Pluto", 9 >> >>

STRATEGY_BY_TYPE ==
  << << "GENERATOR", "Wait to respond" >>,
     << "MANIFESTING GENERATOR", "Wait to respond, then inform" >>,
     << "PROJECTOR", "Wait for invitation" >>,
     << "MANIFESTOR", "Inform before action" >>,
     << "REFLECTOR", "Wait 28 days for clarity" >> >>

AUTHORITY_DESCRIPTIONS ==
  << << "SP", "Emotional Authority" >>,
     << "SL", "Sacral Authority" >>,
     << "SN", "Splenic Authority" >>,
     << "HT", "Ego-Manifested Authority" >>,
     << "GC", "Self-Projected Authority" >>,
     << "HT_GC", "Ego-Projected Authority" >>,
     << "outher_auth", "No Inner Authority" >>,
     << "lunar", "Lunar Authority" >> >>

(***************************************************************************)
(* Python built-ins used by the code.                                      *)
(***************************************************************************)
\* A Python list or dict is built once, when the statement runs: list(f) and
\* dict(f) are f with every entry evaluated, instead of a rule f is re-derived
\* from at each lookup.
list(f) ==
  f \o <<>>

dict(f) ==
  f @@ <<>>

Range(s) ==
  {s[i] : i \in DOMAIN s}

Min(S) ==
  CHOOSE x \in S : \A y \in S : x <= y

Max(S) ==
  CHOOSE x \in S : \A y \in S : x >= y

\* v = ...: the value v under the local name of F, in the rest of the body F
Let(v, F(_)) ==
  F(v)

\* item[::-1]
Reverse(t) ==
  list([i \in 1..Len(t) |-> t[Len(t) + 1 - i]])

\* list(d.keys()), list(d.values()) of an insertion-ordered dict
Keys(d) ==
  list([i \in DOMAIN d |-> d[i][1]])

Values(d) ==
  list([i \in DOMAIN d |-> d[i][2]])

\* dict(zip(ks, vs)): a later entry overwrites an earlier one with its key
dict_zip(ks, vs) ==
  dict([k \in Range(ks) |-> vs[Max({i \in DOMAIN ks : ks[i] = k})]])

\* a dict literal as a mapping
dict_of(d) ==
  dict_zip(Keys(d), Values(d))

\* d.get(k, default)
dict_get(d, k, default) ==
  IF k \in DOMAIN d THEN d[k] ELSE default

\* lst.index(x), 1-based; 0 stands for the ValueError of a missing value
list_index(lst, x) ==
  IF \E i \in DOMAIN lst : lst[i] = x
    THEN Min({i \in DOMAIN lst : lst[i] = x})
    ELSE 0

\* np.array(lst)[mask]: the entries of lst at the positions of keep, in order
Filter(lst, keep) ==
  LET idxs == SelectSeq([i \in DOMAIN lst |-> i], LAMBDA i : i \in keep)
  IN  list([k \in DOMAIN idxs |-> lst[idxs[k]]])

(***************************************************************************)
(* _calc_full_gates_chakra_dict and the global FULL_DICT                   *)
(***************************************************************************)
\* variant of _calc_full_gates_chakra_dict: the channels in normal order only
_calc_full_gates_chakra_dict_forward_only(gates_chakra_dict) ==
  Let(Values(gates_chakra_dict),
      LAMBDA full_ch_chakra_list :
  Let(Keys(gates_chakra_dict),
      LAMBDA full_ch_list :
  Let(list([i \in DOMAIN full_ch_chakra_list |-> full_ch_chakra_list[i][1]]),
      LAMBDA full_chakra_1_list :
  Let(list([i \in DOMAIN full_ch_list |-> full_ch_list[i][1]]),
      LAMBDA full_gate_1_list :
    [ full_ch_chakra_list       |-> full_ch_chakra_list,
      full_ch_list              |-> full_ch_list,
      full_ch_gates_chakra_dict |-> dict_zip(full_ch_list, full_ch_chakra_list),
      full_chakra_1_list        |-> full_chakra_1_list,
      full_chakra_2_list        |->
        list([i \in DOMAIN full_ch_chakra_list |-> full_ch_chakra_list[i][2]]),
      full_gate_1_list          |-> full_gate_1_list,
      full_gate_2_list          |-> list([i \in DOMAIN full_ch_list |-> full_ch_list[i][2]]),
      full_gate_chakra_dict     |-> dict_zip(full_gate_1_list, full_chakra_1_list) ]))))

_calc_full_gates_chakra_dict(gates_chakra_dict) ==
  Let(Values(gates_chakra_dict)
        \o list([i \in DOMAIN gates_chakra_dict |-> Reverse(gates_chakra_dict[i][2])]),
      LAMBDA full_ch_chakra_list :
  Let(Keys(gates_chakra_dict)
        \o list([i \in DOMAIN gates_chakra_dict |-> Reverse(gates_chakra_dict[i][1])]),
      LAMBDA full_ch_list :
  Let(list([i \in DOMAIN full_ch_chakra_list |-> full_ch_chakra_list[i][1]]),
      LAMBDA full_chakra_1_list :
  Let(list([i \in DOMAIN full_ch_list |-> full_ch_list[i][1]]),
      LAMBDA full_gate_1_list :
    [ full_ch_chakra_list       |-> full_ch_chakra_list,
      full_ch_list              |-> full_ch_list,
      full_ch_gates_chakra_dict |-> dict_zip(full_ch_list, full_ch_chakra_list),
      full_chakra_1_list        |-> full_chakra_1_list,
      full_chakra_2_list        |->
        list([i \in DOMAIN full_ch_chakra_list |-> full_ch_chakra_list[i][2]]),
      full_gate_1_list          |-> full_gate_1_list,
      full_gate_2_list          |-> list([i \in DOMAIN full_ch_list |-> full_ch_list[i][2]]),
      full_gate_chakra_dict     |-> dict_zip(full_gate_1_list, full_chakra_1_list) ]))))

FULL_DICT ==
  _calc_full_gates_chakra_dict(GATES_CHAKRA_DICT)

(***************************************************************************)
(* date_to_gate: the angle mapper, over the 13 bodies of one Julian day.   *)
(* xx[label][code] is the longitude swe.calc_ut returns for the body code  *)
(* at the Julian day of the polarity label.                                *)
(***************************************************************************)
\* one turn of the wheel in longitude units, and one degree
Circle ==
  64 * 6 * 6 * 6 * 5

Deg ==
  Circle \div 360

\* int(angle_percentage * n) for angle_percentage = angle / 360: n divides
\* Circle, so the quotient is taken without forming angle * n
Scaled(angle, n) ==
  angle \div (Circle \div n)

\* variant of angle_of: the remainder taken with the sign of the dividend and
\* then made positive
angle_of_mirrored(long) ==
  IF long + ICHING_OFFSET * Deg >= 0
    THEN (long + ICHING_OFFSET * Deg) % Circle
    ELSE (0 - (long + ICHING_OFFSET * Deg)) % Circle

\* angle = (long + offset) % 360, never negative
angle_of(long) ==
  (long + ICHING_OFFSET * Deg) % Circle

date_to_gate(xx, label) ==
  LET \* one pass of the loop: the longitude and the five coordinates
      row(planet, planet_code) ==
        Let(IF planet = "Earth" THEN (xx[label][planet_code] + 180 * Deg) % Circle
            ELSE IF planet = "South_Node" THEN (xx[label][planet_code] + 180 * Deg) % Circle
            ELSE xx[label][planet_code],
            LAMBDA long :
        Let(angle_of(long),
            LAMBDA angle :
          << long,
             ICHING_CIRCLE_LIST[Scaled(angle, 64) + 1],
             (Scaled(angle, 64 * 6) % 6) + 1,
             (Scaled(angle, 64 * 6 * 6) % 6) + 1,
             (Scaled(angle, 64 * 6 * 6 * 6) % 6) + 1,
             (Scaled(angle, 64 * 6 * 6 * 6 * 5) % 5) + 1 >>))
  IN  Let(list([i \in DOMAIN SWE_PLANET_DICT |->
                  row(SWE_PLANET_DICT[i][1], SWE_PLANET_DICT[i][2])]),
          LAMBDA rows :
        [ label   |-> list([i \in DOMAIN rows |-> label]),
          planets |-> Keys(SWE_PLANET_DICT),
          lon     |-> list([i \in DOMAIN rows |-> rows[i][1]]),
          gate    |-> list([i \in DOMAIN rows |-> rows[i][2]]),
          line    |-> list([i \in DOMAIN rows |-> rows[i][3]]),
          color   |-> list([i \in DOMAIN rows |-> rows[i][4]]),
          tone    |-> list([i \in DOMAIN rows |-> rows[i][5]]),
          base    |-> list([i \in DOMAIN rows |-> rows[i][6]]),
          ch_gate |-> list([i \in DOMAIN rows |-> 0]) ])

(***************************************************************************)
(* get_channels_and_centers                                                *)
(***************************************************************************)
\* np.where(np.array(lst) == x)[0]: the positions of x in lst, ascending
np_where(lst, x) ==
  SelectSeq([i \in DOMAIN lst |-> i], LAMBDA i : lst[i] = x)

\* The three searches of the loop body depend on the gate only; they are
\* tabulated once over the gates date_to_gate can produce.
gate_indices ==
  dict([gate \in Range(ICHING_CIRCLE_LIST) |-> np_where(FULL_DICT.full_gate_1_list, gate)])

gate_1_index ==
  dict([gate \in Range(ICHING_CIRCLE_LIST) |-> list_index(FULL_DICT.full_gate_1_list, gate)])

\* variant of gate_2_index: the second search made in full_gate_1_list, so that
\* the chakra taken from full_chakra_2_list is the one of a partner gate
gate_2_index_in_gate_1_list ==
  dict([gate \in Range(ICHING_CIRCLE_LIST) |-> list_index(FULL_DICT.full_gate_1_list, gate)])

gate_2_index ==
  dict([gate \in Range(ICHING_CIRCLE_LIST) |-> list_index(FULL_DICT.full_gate_2_list, gate)])

\* the partner gate the loop over gate_indices stops at, 0 when it finds none;
\* gates is the set of the values of gate_list
first_ch_gate(gate, gates) ==
  Let(FULL_DICT.full_gate_2_list,
      LAMBDA ch_gate_b :
  Let(SelectSeq(gate_indices[gate], LAMBDA index : ch_gate_b[index] \in gates),
      LAMBDA hits :
    IF hits = <<>> THEN 0 ELSE ch_gate_b[hits[1]]))

\* variant of sorted_pair: the pair left as (gate, ch_gate)
pair_as_given(a, b) ==
  <<a, b>>

\* sorted((a, b)) of two integers
sorted_pair(a, b) ==
  IF a <= b THEN <<a, b>> ELSE <<b, a>>

\* np.unique(rows, axis=0, return_index=True)[1]: first index of each row
unique_indices(rows) ==
  {i \in DOMAIN rows : \A j \in DOMAIN rows : j < i => rows[j] # rows[i]}

\* variant of full_meaning_dict: the reversed keys are not added
full_meaning_dict_forward_only ==
  dict_of(CHANNEL_MEANING_DICT)

\* the meanings in normal and reversed order; it does not depend on the
\* argument of get_channels_and_centers, which builds it
full_meaning_dict ==
  Let(CHANNEL_MEANING_DICT,
      LAMBDA d :
    dict_zip(Keys(d) \o list([i \in DOMAIN d |-> Reverse(d[i][1])]),
             Values(d) \o Values(d)))

\* variant of get_channels_and_centers: the partner gate is looked for among
\* the activations after this one, not in the whole of gate_list
get_channels_and_centers_later_only(date_to_gate_dict) ==
  LET gate_list == date_to_gate_dict.gate
      N == DOMAIN date_to_gate_dict.gate
      labels_of(g) == Filter(date_to_gate_dict.label, {i \in N : gate_list[i] = g})
  IN
  Let(Range(gate_list),
      LAMBDA gates :
  Let(list([idx \in N |-> first_ch_gate(gate_list[idx],
                                        {gate_list[j] : j \in {i \in N : i > idx}})]),
      LAMBDA found :
  Let(list([idx \in N |-> IF found[idx] # 0 THEN found[idx]
                          ELSE date_to_gate_dict.ch_gate[idx]]),
      LAMBDA ch_gate_list :
  Let(list([idx \in N |-> gate_1_index[gate_list[idx]]]),
      LAMBDA index_1 :
  Let(list([idx \in N |-> gate_2_index[gate_list[idx]]]),
      LAMBDA index_2 :
  Let({idx \in N : found[idx] # 0},
      LAMBDA hit :
  Let({i \in N : ch_gate_list[i] # 0},
      LAMBDA mask :
  Let(list([i \in N |-> sorted_pair(gate_list[i], ch_gate_list[i])]),
      LAMBDA sorted_channels :
  Let(unique_indices(sorted_channels) \cap mask,
      LAMBDA keep :
  Let(Filter(gate_list, keep),
      LAMBDA gate :
  Let(Filter(ch_gate_list, keep),
      LAMBDA ch_gate :
  Let(FULL_DICT.full_gate_chakra_dict,
      LAMBDA gcd :
    [ exc            |->
        \/ \E idx \in hit : index_1[idx] = 0 \/ index_2[idx] = 0
        \/ \E k \in DOMAIN gate : gate[k] \notin DOMAIN gcd \/ ch_gate[k] \notin DOMAIN gcd,
      ch_gate_list   |-> ch_gate_list,
      active_centers |->
        {FULL_DICT.full_chakra_1_list[index_1[idx]] : idx \in {j \in hit : index_1[j] # 0}}
          \cup
        {FULL_DICT.full_chakra_2_list[index_2[idx]] : idx \in {j \in hit : index_2[j] # 0}},
      active_channels_dict |->
        [ label          |-> Filter(date_to_gate_dict.label, keep),
          planets        |-> Filter(date_to_gate_dict.planets, keep),
          gate           |-> gate,
          ch_gate        |-> ch_gate,
          gate_chakra    |-> list([k \in DOMAIN gate |-> dict_get(gcd, gate[k], "KeyError")]),
          ch_gate_chakra |-> list([k \in DOMAIN gate |-> dict_get(gcd, ch_gate[k], "KeyError")]),
          ch_gate_label  |-> list([k \in DOMAIN gate |-> labels_of(ch_gate[k])]),
          gate_label     |-> list([k \in DOMAIN gate |-> labels_of(gate[k])]),
          meaning        |-> list([k \in DOMAIN gate |->
                                dict_get(full_meaning_dict, <<gate[k], ch_gate[k]>>,
                                         <<"Unknown", "Unknown">>)]) ] ]))))))))))))

get_channels_and_centers(date_to_gate_dict) ==
  LET gate_list == date_to_gate_dict.gate
      N == DOMAIN date_to_gate_dict.gate
      labels_of(g) == Filter(date_to_gate_dict.label, {i \in N : gate_list[i] = g})
  IN
  Let(Range(gate_list),
      LAMBDA gates :
  Let(list([idx \in N |-> first_ch_gate(gate_list[idx], gates)]),
      LAMBDA found :
  Let(list([idx \in N |-> IF found[idx] # 0 THEN found[idx]
                          ELSE date_to_gate_dict.ch_gate[idx]]),
      LAMBDA ch_gate_list :
  Let(list([idx \in N |-> gate_1_index[gate_list[idx]]]),
      LAMBDA index_1 :
  Let(list([idx \in N |-> gate_2_index[gate_list[idx]]]),
      LAMBDA index_2 :
  Let({idx \in N : found[idx] # 0},
      LAMBDA hit :
  Let({i \in N : ch_gate_list[i] # 0},
      LAMBDA mask :
  Let(list([i \in N |-> sorted_pair(gate_list[i], ch_gate_list[i])]),
      LAMBDA sorted_channels :
  Let(unique_indices(sorted_channels) \cap mask,
      LAMBDA keep :
  Let(Filter(gate_list, keep),
      LAMBDA gate :
  Let(Filter(ch_gate_list, keep),
      LAMBDA ch_gate :
  Let(FULL_DICT.full_gate_chakra_dict,
      LAMBDA gcd :
    [ exc            |->
        \/ \E idx \in hit : index_1[idx] = 0 \/ index_2[idx] = 0
        \/ \E k \in DOMAIN gate : gate[k] \notin DOMAIN gcd \/ ch_gate[k] \notin DOMAIN gcd,
      ch_gate_list   |-> ch_gate_list,
      active_centers |->
        {FULL_DICT.full_chakra_1_list[index_1[idx]] : idx \in {j \in hit : index_1[j] # 0}}
          \cup
        {FULL_DICT.full_chakra_2_list[index_2[idx]] : idx \in {j \in hit : index_2[j] # 0}},
      active_channels_dict |->
        [ label          |-> Filter(date_to_gate_dict.label, keep),
          planets        |-> Filter(date_to_gate_dict.planets, keep),
          gate           |-> gate,
          ch_gate        |-> ch_gate,
          gate_chakra    |-> list([k \in DOMAIN gate |-> dict_get(gcd, gate[k], "KeyError")]),
          ch_gate_chakra |-> list([k \in DOMAIN gate |-> dict_get(gcd, ch_gate[k], "KeyError")]),
          ch_gate_label  |-> list([k \in DOMAIN gate |-> labels_of(ch_gate[k])]),
          gate_label     |-> list([k \in DOMAIN gate |-> labels_of(gate[k])]),
          meaning        |-> list([k \in DOMAIN gate |->
                                dict_get(full_meaning_dict, <<gate[k], ch_gate[k]>>,
                                         <<"Unknown", "Unknown">>)]) ] ]))))))))))))

(***************************************************************************)
(* Feature functions                                                       *)
(***************************************************************************)
\* variant of is_connected: the two masks joined by "or", so that a channel
\* with one end among args counts
is_connected_either_end(active_channels_dict, args) ==
  IF Len(active_channels_dict.gate) = 0 THEN FALSE
  ELSE
    LET gate_chakra_mask ==
          {k \in DOMAIN active_channels_dict.gate_chakra :
             active_channels_dict.gate_chakra[k] \in Range(args)}
        ch_gate_chakra_mask ==
          {k \in DOMAIN active_channels_dict.ch_gate_chakra :
             active_channels_dict.ch_gate_chakra[k] \in Range(args)}
        mask == gate_chakra_mask \cup ch_gate_chakra_mask
    IN  Cardinality(mask) >= Len(args) - 1

\* variant of is_connected: more matching channels than len(args) - 1 asked for
is_connected_more_than(active_channels_dict, args) ==
  IF Len(active_channels_dict.gate) = 0 THEN FALSE
  ELSE
    LET gate_chakra_mask ==
          {k \in DOMAIN active_channels_dict.gate_chakra :
             active_channels_dict.gate_chakra[k] \in Range(args)}
        ch_gate_chakra_mask ==
          {k \in DOMAIN active_channels_dict.ch_gate_chakra :
             active_channels_dict.ch_gate_chakra[k] \in Range(args)}
        mask == gate_chakra_mask \cap ch_gate_chakra_mask
    IN  Cardinality(mask) > Len(args) - 1

\* args is the tuple of chakras of the call
is_connected(active_channels_dict, args) ==
  IF Len(active_channels_dict.gate) = 0 THEN FALSE
  ELSE
    LET gate_chakra_mask ==
          {k \in DOMAIN active_channels_dict.gate_chakra :
             active_channels_dict.gate_chakra[k] \in Range(args)}
        ch_gate_chakra_mask ==
          {k \in DOMAIN active_channels_dict.ch_gate_chakra :
             active_channels_dict.ch_gate_chakra[k] \in Range(args)}
        mask == gate_chakra_mask \cap ch_gate_chakra_mask
    IN  Cardinality(mask) >= Len(args) - 1

\* variant of get_energy_type: no case of its own for the empty set of centers
get_energy_type_without_reflector(active_channels_dict, active_centers) ==
  IF "SL" \notin active_centers THEN
    IF "TT" \notin active_centers THEN "PROJECTOR"
    ELSE IF "HT" \in active_centers /\ is_connected(active_channels_dict, <<"HT", "TT">>)
      THEN "MANIFESTOR"
    ELSE IF "SP" \in active_centers /\ is_connected(active_channels_dict, <<"SP", "TT">>)
      THEN "MANIFESTOR"
    ELSE IF "RT" \in active_centers /\ is_connected(active_channels_dict, <<"RT", "TT">>)
      THEN "MANIFESTOR"
    ELSE "PROJECTOR"
  ELSE IF "TT" \notin active_centers THEN "GENERATOR"
  ELSE IF "HT" \in active_centers /\ is_connected(active_channels_dict, <<"HT", "TT">>)
    THEN "MANIFESTING GENERATOR"
  ELSE IF "SP" \in active_centers /\ is_connected(active_channels_dict, <<"SP", "TT">>)
    THEN "MANIFESTING GENERATOR"
  ELSE IF "RT" \in active_centers /\ is_connected(active_channels_dict, <<"RT", "TT">>)
    THEN "MANIFESTING GENERATOR"
  ELSE IF is_connected(active_channels_dict, <<"SL", "TT">>)
    THEN "MANIFESTING GENERATOR"
  ELSE "GENERATOR"

\* variant of get_energy_type: the Sacral defined and the Throat undefined gives
\* PROJECTOR, as in the first half
get_energy_type_generator_needs_throat(active_channels_dict, active_centers) ==
  IF Cardinality(active_centers) = 0 THEN "REFLECTOR"
  ELSE IF "SL" \notin active_centers THEN
    IF "TT" \notin active_centers THEN "PROJECTOR"
    ELSE IF "HT" \in active_centers /\ is_connected(active_channels_dict, <<"HT", "TT">>)
      THEN "MANIFESTOR"
    ELSE IF "SP" \in active_centers /\ is_connected(active_channels_dict, <<"SP", "TT">>)
      THEN "MANIFESTOR"
    ELSE IF "RT" \in active_centers /\ is_connected(active_channels_dict, <<"RT", "TT">>)
      THEN "MANIFESTOR"
    ELSE "PROJECTOR"
  ELSE IF "TT" \notin active_centers THEN "PROJECTOR"
  ELSE IF "HT" \in active_centers /\ is_connected(active_channels_dict, <<"HT", "TT">>)
    THEN "MANIFESTING GENERATOR"
  ELSE IF "SP" \in active_centers /\ is_connected(active_channels_dict, <<"SP", "TT">>)
    THEN "MANIFESTING GENERATOR"
  ELSE IF "RT" \in active_centers /\ is_connected(active_channels_dict, <<"RT", "TT">>)
    THEN "MANIFESTING GENERATOR"
  ELSE IF is_connected(active_channels_dict, <<"SL", "TT">>)
    THEN "MANIFESTING GENERATOR"
  ELSE "GENERATOR"

\* variant of get_energy_type: a defined Root is taken as joined to the Throat
get_energy_type_root_defined(active_channels_dict, active_centers) ==
  IF Cardinality(active_centers) = 0 THEN "REFLECTOR"
  ELSE IF "SL" \notin active_centers THEN
    IF "TT" \notin active_centers THEN "PROJECTOR"
    ELSE IF "HT" \in active_centers /\ is_connected(active_channels_dict, <<"HT", "TT">>)
      THEN "MANIFESTOR"
    ELSE IF "SP" \in active_centers /\ is_connected(active_channels_dict, <<"SP", "TT">>)
      THEN "MANIFESTOR"
    ELSE IF "RT" \in active_centers
      THEN "MANIFESTOR"
    ELSE "PROJECTOR"
  ELSE IF "TT" \notin active_centers THEN "GENERATOR"
  ELSE IF "HT" \in active_centers /\ is_connected(active_channels_dict, <<"HT", "TT">>)
    THEN "MANIFESTING GENERATOR"
  ELSE IF "SP" \in active_centers /\ is_connected(active_channels_dict, <<"SP", "TT">>)
    THEN "MANIFESTING GENERATOR"
  ELSE IF "RT" \in active_centers
    THEN "MANIFESTING GENERATOR"
  ELSE IF is_connected(active_channels_dict, <<"SL", "TT">>)
    THEN "MANIFESTING GENERATOR"
  ELSE "GENERATOR"

get_energy_type(active_channels_dict, active_centers) ==
  IF Cardinality(active_centers) = 0 THEN "REFLECTOR"
  ELSE IF "SL" \notin active_centers THEN
    IF "TT" \notin active_centers THEN "PROJECTOR"
    ELSE IF "HT" \in active_centers /\ is_connected(active_channels_dict, <<"HT", "TT">>)
      THEN "MANIFESTOR"
    ELSE IF "SP" \in active_centers /\ is_connected(active_channels_dict, <<"SP", "TT">>)
      THEN "MANIFESTOR"
    ELSE IF "RT" \in active_centers /\ is_connected(active_channels_dict, <<"RT", "TT">>)
      THEN "MANIFESTOR"
    ELSE "PROJECTOR"
  ELSE IF "TT" \notin active_centers THEN "GENERATOR"
  ELSE IF "HT" \in active_centers /\ is_connected(active_channels_dict, <<"HT", "TT">>)
    THEN "MANIFESTING GENERATOR"
  ELSE IF "SP" \in active_centers /\ is_connected(active_channels_dict, <<"SP", "TT">>)
    THEN "MANIFESTING GENERATOR"
  ELSE IF "RT" \in active_centers /\ is_connected(active_channels_dict, <<"RT", "TT">>)
    THEN "MANIFESTING GENERATOR"
  ELSE IF is_connected(active_channels_dict, <<"SL", "TT">>)
    THEN "MANIFESTING GENERATOR"
  ELSE "GENERATOR"

\* variant of get_authority: the Sacral tested before the Solar Plexus
get_authority_sacral_first(active_centers, active_channels_dict) ==
  LET outer_auth_conditions ==
        \/ "HD" \in active_centers
        \/ "AA" \in active_centers
        \/ "TT" \in active_centers
        \/ Cardinality(active_centers) = 0
  IN  IF "SL" \in active_centers THEN "SL"
      ELSE IF "SP" \in active_centers THEN "SP"
      ELSE IF "SN" \in active_centers THEN "SN"
      ELSE IF is_connected(active_channels_dict, <<"HT", "TT">>) THEN "HT"
      ELSE IF is_connected(active_channels_dict, <<"GC", "TT">>) THEN "GC"
      ELSE IF "GC" \in active_centers /\ "HT" \in active_centers THEN "HT_GC"
      ELSE IF Cardinality(active_centers) = 0 THEN "lunar"
      ELSE IF outer_auth_conditions THEN "outher_auth"
      ELSE "unknown"

\* The order in which this process lists a set of center names: the strings
\* are hashed with the seed of the process.  Seed 0 gives the alphabetical
\* order, seed 1 its reverse, the next two seeds the same moved on by one
\* place, and so on.
set_order(seed) ==
  Let(<<"AA", "GC", "HD", "HT", "RT", "SL", "SN", "SP", "TT">>,
      LAMBDA names :
  Let(list([i \in DOMAIN names |-> names[((i - 1 + seed \div 2) % Len(names)) + 1]]),
      LAMBDA moved :
    IF seed % 2 = 0 THEN moved ELSE Reverse(moved)))

\* list(s) of a set s of center names
list_set(s) ==
  SelectSeq(set_order(hash_seed), LAMBDA c : c \in s)

\* variant of get_authority: the first of SP, SL and SN that the set of centers
\* lists is taken
get_authority_in_set_order(active_centers, active_channels_dict) ==
  LET outer_auth_conditions ==
        \/ "HD" \in active_centers
        \/ "AA" \in active_centers
        \/ "TT" \in active_centers
        \/ Cardinality(active_centers) = 0
      inner == SelectSeq(list_set(active_centers), LAMBDA c : c \in {"SP", "SL", "SN"})
  IN  IF inner # <<>> THEN inner[1]
      ELSE IF is_connected(active_channels_dict, <<"HT", "TT">>) THEN "HT"
      ELSE IF is_connected(active_channels_dict, <<"GC", "TT">>) THEN "GC"
      ELSE IF "GC" \in active_centers /\ "HT" \in active_centers THEN "HT_GC"
      ELSE IF Cardinality(active_centers) = 0 THEN "lunar"
      ELSE IF outer_auth_conditions THEN "outher_auth"
      ELSE "unknown"

\* variant of get_authority: outer_auth_conditions, which holds of the empty
\* set, tested before the empty set
get_authority_outer_first(active_centers, active_channels_dict) ==
  LET outer_auth_conditions ==
        \/ "HD" \in active_centers
        \/ "AA" \in active_centers
        \/ "TT" \in active_centers
        \/ Cardinality(active_centers) = 0
  IN  IF "SP" \in active_centers THEN "SP"
      ELSE IF "SL" \in active_centers THEN "SL"
      ELSE IF "SN" \in active_centers THEN "SN"
      ELSE IF is_connected(active_channels_dict, <<"HT", "TT">>) THEN "HT"
      ELSE IF is_connected(active_channels_dict, <<"GC", "TT">>) THEN "GC"
      ELSE IF "GC" \in active_centers /\ "HT" \in active_centers THEN "HT_GC"
      ELSE IF outer_auth_conditions THEN "outher_auth"
      ELSE IF Cardinality(active_centers) = 0 THEN "lunar"
      ELSE "unknown"

\* variant of get_authority: the rule for G and Heart both defined left out
get_authority_without_ego_projected(active_centers, active_channels_dict) ==
  LET outer_auth_conditions ==
        \/ "HD" \in active_centers
        \/ "AA" \in active_centers
        \/ "TT" \in active_centers
        \/ Cardinality(active_centers) = 0
  IN  IF "SP" \in active_centers THEN "SP"
      ELSE IF "SL" \in active_centers THEN "SL"
      ELSE IF "SN" \in active_centers THEN "SN"
      ELSE IF is_connected(active_channels_dict, <<"HT", "TT">>) THEN "HT"
      ELSE IF is_connected(active_channels_dict, <<"GC", "TT">>) THEN "GC"
      ELSE IF Cardinality(active_centers) = 0 THEN "lunar"
      ELSE IF outer_auth_conditions THEN "outher_auth"
      ELSE "unknown"

get_authority(active_centers, active_channels_dict) ==
  LET outer_auth_conditions ==
        \/ "HD" \in active_centers
        \/ "AA" \in active_centers
        \/ "TT" \in active_centers
        \/ Cardinality(active_centers) = 0
  IN  IF "SP" \in active_centers THEN "SP"
      ELSE IF "SL" \in active_centers THEN "SL"
      ELSE IF "SN" \in active_centers THEN "SN"
      ELSE IF is_connected(active_channels_dict, <<"HT", "TT">>) THEN "HT"
      ELSE IF is_connected(active_channels_dict, <<"GC", "TT">>) THEN "GC"
      ELSE IF "GC" \in active_centers /\ "HT" \in active_centers THEN "HT_GC"
      ELSE IF Cardinality(active_centers) = 0 THEN "lunar"
      ELSE IF outer_auth_conditions THEN "outher_auth"
      ELSE "unknown"

\* IC_CROSS_TYP as a mapping
IC_CROSS_TYP_map ==
  dict_of(IC_CROSS_TYP)

\* variant of cross_type_of: the reversed pair is not tried
cross_type_of_forward_only(profile) ==
  dict_get(IC_CROSS_TYP_map, profile, "Unknown")

\* cross type of a line pair: the pair, else the reversed pair, else Unknown
cross_type_of(profile) ==
  IF profile \in DOMAIN IC_CROSS_TYP_map THEN IC_CROSS_TYP_map[profile]
  ELSE dict_get(IC_CROSS_TYP_map, Reverse(profile), "Unknown")

\* variant of get_incarnation_cross: the gates grouped by body, the two Suns
\* and then the two Earths
get_incarnation_cross_by_body(date_to_gate_dict) ==
  LET df  == date_to_gate_dict
      idx == Len(df.planets) \div 2
      profile == <<df.line[1], df.line[idx + 1]>>
  IN  <<df.gate[1], df.gate[idx + 1], df.gate[2], df.gate[idx + 2], cross_type_of(profile)>>

\* the string "(a,b)-(c,d)-T" as the tuple <<a, b, c, d, T>>
get_incarnation_cross(date_to_gate_dict) ==
  LET df  == date_to_gate_dict
      idx == Len(df.planets) \div 2
      profile == <<df.line[1], df.line[idx + 1]>>
  IN  <<df.gate[1], df.gate[2], df.gate[idx + 1], df.gate[idx + 2], cross_type_of(profile)>>

\* variant of get_profile: the pair is reversed only when the reversed pair is
\* a key
get_profile_reversed_if_key(date_to_gate_dict) ==
  LET df  == date_to_gate_dict
      idx == Len(df.line) \div 2
      profile == <<df.line[1], df.line[idx + 1]>>
  IN  IF profile \notin DOMAIN IC_CROSS_TYP_map /\ Reverse(profile) \in DOMAIN IC_CROSS_TYP_map
        THEN Reverse(profile) ELSE profile

get_profile(date_to_gate_dict) ==
  LET df  == date_to_gate_dict
      idx == Len(df.line) \div 2
      profile == <<df.line[1], df.line[idx + 1]>>
  IN  IF profile \notin DOMAIN IC_CROSS_TYP_map THEN Reverse(profile) ELSE profile

\* variant of get_variables: 'left' for a tone below 3
get_variables_below_3(date_to_gate_dict) ==
  LET df  == date_to_gate_dict
      idx == Len(df.tone) \div 2
      tones == <<df.tone[1], df.tone[4], df.tone[idx + 1], df.tone[idx + 4]>>
      keys == <<"right_up", "right_down", "left_up", "left_down">>
  IN  dict([k \in Range(keys) |->
         IF tones[list_index(keys, k)] < 3 THEN "left" ELSE "right"])

get_variables(date_to_gate_dict) ==
  LET df  == date_to_gate_dict
      idx == Len(df.tone) \div 2
      tones == <<df.tone[1], df.tone[4], df.tone[idx + 1], df.tone[idx + 4]>>
      keys == <<"right_up", "right_down", "left_up", "left_down">>
  IN  dict([k \in Range(keys) |->
         IF tones[list_index(keys, k)] <= 3 THEN "left" ELSE "right"])

\* alphabetical rank of the chakra names, the order sorted() puts them in
chakra_rank(c) ==
  list_index(<<"AA", "GC", "HD", "HT", "RT", "SL", "SN", "SP", "TT">>, c)

\* variant of sorted_chakra_pair: the pair left in the order of the channel
unsorted_chakra_pair(a, b) ==
  <<a, b>>

sorted_chakra_pair(a, b) ==
  IF chakra_rank(a) <= chakra_rank(b) THEN <<a, b>> ELSE <<b, a>>

get_split(active_channels_dict, active_centers) ==
  LET gate_chakra == active_channels_dict.gate_chakra
      ch_gate_chakra == active_channels_dict.ch_gate_chakra
      sorted_chakras ==
        list([i \in DOMAIN gate_chakra |-> sorted_chakra_pair(gate_chakra[i], ch_gate_chakra[i])])
      len_no_dupl_channel == Cardinality(unique_indices(sorted_chakras))
  IN  Cardinality(active_centers) - len_no_dupl_channel

\* STRATEGY_BY_TYPE as a mapping
STRATEGY_BY_TYPE_map ==
  dict_of(STRATEGY_BY_TYPE)

get_strategy(energy_type) ==
  dict_get(STRATEGY_BY_TYPE_map, energy_type, "Unknown")

(***************************************************************************)
(* calculate_human_design: the public operation                            *)
(***************************************************************************)
\* AUTHORITY_DESCRIPTIONS as a mapping
AUTHORITY_DESCRIPTIONS_map ==
  dict_of(AUTHORITY_DESCRIPTIONS)

\* variant of undefined_centers_of: the defined centers are not taken out
undefined_centers_all(active_centers) ==
  Range(CHAKRA_LIST)

\* set(CHAKRA_LIST) - set(active_centers)
undefined_centers_of(active_centers) ==
  Range(CHAKRA_LIST) \ active_centers

\* variant of store_ch_gate: the partner gates are written over the gates too
store_ch_gate_over_gate(date_to_gate_dict, ch_gate_list) ==
  [date_to_gate_dict EXCEPT
     !.gate = list([idx \in DOMAIN ch_gate_list |->
                      IF ch_gate_list[idx] # 0 THEN ch_gate_list[idx] ELSE @[idx]]),
     !.ch_gate = ch_gate_list]

\* date_to_gate_dict["ch_gate"] = ch_gate_list: get_channels_and_centers
\* stores the partner gates in its argument, which the caller goes on to use
store_ch_gate(date_to_gate_dict, ch_gate_list) ==
  [date_to_gate_dict EXCEPT !.ch_gate = ch_gate_list]

\* the results dict; the dates, which only echo the timestamp, are left out
chart(xx) ==
  Let(date_to_gate(xx, "prs"),
      LAMBDA birth_planets :
  Let(date_to_gate(xx, "des"),
      LAMBDA design_planets :
  Let(dict([key \in DOMAIN birth_planets |-> birth_planets[key] \o design_planets[key]]),
      LAMBDA combined_data0 :
  Let(get_channels_and_centers(combined_data0),
      LAMBDA gcc :
  Let(store_ch_gate(combined_data0, gcc.ch_gate_list),
      LAMBDA combined_data :
  Let(get_energy_type(gcc.active_channels_dict, gcc.active_centers),
      LAMBDA energy_type :
  Let(get_authority(gcc.active_centers, gcc.active_channels_dict),
      LAMBDA authority :
  Let(get_profile(combined_data),
      LAMBDA profile :
  Let(get_incarnation_cross(combined_data),
      LAMBDA incarnation_cross :
    LET channels_dict == gcc.active_channels_dict
        active_centers == gcc.active_centers
    IN  [ exc |-> gcc.exc,
          results |->
            [ energy_type       |-> energy_type,
              strategy          |-> get_strategy(energy_type),
              authority         |-> authority,
              authority_name    |-> dict_get(AUTHORITY_DESCRIPTIONS_map, authority, authority),
              profile           |-> <<profile[1], "/", profile[2]>>,
              incarnation_cross |-> incarnation_cross,
              cross_type        |-> incarnation_cross[Len(incarnation_cross)],
              defined_centers   |-> list_set(active_centers),
              undefined_centers |-> list_set(undefined_centers_of(active_centers)),
              split             |-> get_split(channels_dict, active_centers),
              variables         |-> get_variables(combined_data),
              active_gates      |-> {g \in Range(combined_data.gate) : g # 0},
              active_channels   |-> list([k \in DOMAIN channels_dict.gate |->
                                       <<channels_dict.gate[k], "/", channels_dict.ch_gate[k]>>]),
              all_gate_data     |-> combined_data,
              channels_data     |-> channels_dict ] ])))))))))

\* the offsets pytz has for the zone names used: fixed all year, and east of
\* Greenwich for Etc/GMT-1
PYTZ_UTCOFFSET ==
  << <<"UTC", 0>>, <<"Etc/GMT-1", 1>>, <<"Etc/GMT+5", -5>> >>

\* hours of the offset of zone at the local time timestamp
get_utc_offset_from_tz(timestamp_6, zone) ==
  dict_of(PYTZ_UTCOFFSET)[zone]

\* swe.utc_time_zone takes the offset from the local time, swe.utc_to_jd gives
\* the Julian day of the result: here the hours from 0h UTC of the birth day,
\* for a timestamp of that day with no minutes and no seconds
timestamp_to_juldate(ts) ==
  ts[4] - ts[7]

\* swe.calc_ut: the longitudes jd hours after 0h UTC of the birth day, and as
\* many hours after 0h UTC of the design day.  The Moon moves half a degree
\* an hour; the other bodies do not move in the few hours considered.
swe_calc_ut(jd) ==
  [label \in DOMAIN ephem |->
     [code \in DOMAIN ephem[label] |->
        IF code = 1 THEN ephem[label][code] + jd * (Deg \div 2) ELSE ephem[label][code]]]

\* the argument timezone_info is bound and not read
calculate_human_design ==
  /\ pc = "call"
  /\ \E jd \in {timestamp_to_juldate(timestamp)} :
       /\ birth_julday' = jd
       /\ \E c \in {chart(swe_calc_ut(jd))} :
            IF c.exc
              THEN /\ error' = TRUE
                   /\ results' = results
              ELSE /\ error' = error
                   /\ results' = c.results
  /\ pc' = "done"
  /\ UNCHANGED <<ephem, timestamp, timezone_info, hash_seed, process, previous, call_args, connected>>

\* the caller keeps the chart and asks for it again, in the same process
call_again ==
  /\ pc = "done"
  /\ ~error
  /\ previous = <<>>
  /\ previous' = <<results>>
  /\ pc' = "call"
  /\ UNCHANGED <<ephem, timestamp, timezone_info, hash_seed, process, birth_julday, results, error,
                 call_args, connected>>

\* the caller keeps the chart; the interpreter is started anew, with the string
\* hashing of the new process, and the chart is asked for again
restart_and_call ==
  /\ pc = "done"
  /\ ~error
  /\ previous = <<>>
  /\ previous' = <<results>>
  /\ process' = process + 1
  /\ hash_seed' \in 0..(NumSeeds - 1)
  /\ pc' = "call"
  /\ UNCHANGED <<ephem, timestamp, timezone_info, birth_julday, results, error, call_args, connected>>

(***************************************************************************)
(* Initial states: what the ephemeris answers for the birth and the design *)
(* Julian day.                                                             *)
(***************************************************************************)
\* the body codes swe.calc_ut is asked for
Codes ==
  {SWE_PLANET_DICT[i][2] : i \in DOMAIN SWE_PLANET_DICT}

\* the longitude at which gate g starts
GateLon(g) ==
  ((list_index(ICHING_CIRCLE_LIST, g) - 1) * (Circle \div 64)
     + Circle - ICHING_OFFSET * Deg) % Circle

\* calc_create_date: the design day is the day the Sun stood design_pos
\* degrees before its birth longitude
design_pos ==
  88

calc_create_date(sun_long) ==
  (sun_long + Circle - design_pos * Deg) % Circle

\* gates a varying body can stand in, most relevant first
PoolGates ==
  <<20, 34, 10, 57, 8, 45, 36, 35, 25, 51, 17, 62, 64, 47>>

Pool ==
  {PoolGates[i] : i \in 1..PoolSize}

\* the bodies whose longitude varies: Moon, Mercury, Venus, ... of the birth
\* and of the design day in turn
FreeCodes ==
  <<1, 2, 3, 4, 5, 6, 7, 8, 9>>

FreeSlot(k) ==
  <<IF k % 2 = 1 THEN "prs" ELSE "des", FreeCodes[(k + 1) \div 2]>>

\* The chart around the varying bodies: the Node of both days at node, every
\* other body with the Sun of its day.  With the birth Sun in gate 1 the
\* Suns and Earths stand in gates 1, 2, 7 and 13.  A Node in gate 21 (South
\* Node in gate 48) closes no channel with them; a Node in gate 33 closes the
\* channel 13/33.
NodeLon ==
  GateLon(21)

ChannelNodeLon ==
  GateLon(33)

\* sun is the longitude of the birth Sun, node that of the Node of both days,
\* f the gates of the varying bodies
Ephem(sun, node, f) ==
  LET sun_of == [label \in {"prs", "des"} |->
                   IF label = "prs" THEN sun ELSE calc_create_date(sun)]
  IN  [label \in {"prs", "des"} |->
         [code \in Codes |->
            IF \E k \in DOMAIN f : FreeSlot(k) = <<label, code>>
              THEN GateLon(f[CHOOSE k \in DOMAIN f : FreeSlot(k) = <<label, code>>])
            ELSE IF code = 11 THEN node
            ELSE sun_of[label]]]

None ==
  "None"

\* one call in one process: the birth at 0h UTC, no zone name, the strings
\* listed in alphabetical order
OneCallAtMidnight ==
  /\ timestamp = <<2000, 1, 1, 0, 0, 0, 0>>
  /\ timezone_info = None
  /\ hash_seed = 0
  /\ process = 1
  /\ birth_julday = None
  /\ previous = <<>>
  /\ call_args = <<>>
  /\ connected = FALSE

\* the birth Sun at the start of gate 1, the Node in gate 33; NumFree bodies
\* anywhere in the pool
Init ==
  /\ \E f \in [1..NumFree -> Pool] : ephem = Ephem(GateLon(1), ChannelNodeLon, f)
  /\ OneCallAtMidnight
  /\ pc = "call"
  /\ results = <<>>
  /\ error = FALSE

\* the gate each toggled body has of its own: with the gates of the Suns, the
\* Earths and the Nodes they reach every center
ToggleGates ==
  <<45, 14, 8, 16, 35, 36, 25, 51, 64, 47, 20, 34, 10, 57, 17, 62>>

\* the birth Sun at the start of gate 1, the Node in gate 21; each of NumToggles bodies either in
\* its own gate or with the Sun of its day
InitToggle ==
  /\ \E on \in SUBSET (1..NumToggles) :
        ephem = Ephem(GateLon(1), NodeLon, [k \in on |-> ToggleGates[k]])
  /\ OneCallAtMidnight
  /\ pc = "call"
  /\ results = <<>>
  /\ error = FALSE

\* positions of the birth Sun: the start and the end of each line of a gate
SunLons ==
  {GateLon(PoolGates[i]) + l * (Circle \div (64 * 6)) + o :
     i \in 1..NumSunGates, l \in 0..5, o \in {0, (Circle \div (64 * 6)) - 10}}

\* the birth Sun anywhere in SunLons, no other body varies
InitCross ==
  /\ \E sun \in SunLons : ephem = Ephem(sun, NodeLon, <<>>)
  /\ OneCallAtMidnight
  /\ pc = "call"
  /\ results = <<>>
  /\ error = FALSE

Next ==
  calculate_human_design

Spec ==
  Init /\ [][Next]_vars

SpecToggle ==
  InitToggle /\ [][Next]_vars

SpecCross ==
  InitCross /\ [][Next]_vars

(***************************************************************************)
(* Properties                                                              *)
(***************************************************************************)
\* the call has returned a chart
Done ==
  pc = "done" /\ ~error

\* the defined and the undefined centers of the returned chart, as sets
DefinedCenters ==
  Range(results.defined_centers)

UndefinedCenters ==
  Range(results.undefined_centers)

\* the gates activated by the 26 bodies of the returned chart
ActivatedGates ==
  Range(results.all_gate_data.gate)

\* the channels of the returned chart, as unordered gate pairs
ReportedPairs ==
  {{results.channels_data.gate[k], results.channels_data.ch_gate[k]} :
     k \in DOMAIN results.channels_data.gate}

\* the center a gate belongs to, read from GATES_CHAKRA_DICT
CenterOfGate(g) ==
  CHOOSE c \in Range(CHAKRA_LIST) :
    \E i \in DOMAIN GATES_CHAKRA_DICT :
      \E s \in 1..2 : GATES_CHAKRA_DICT[i][1][s] = g /\ GATES_CHAKRA_DICT[i][2][s] = c

\* the two centers each channel of the returned chart joins
ReportedCenterPairs ==
  {{CenterOfGate(results.channels_data.gate[k]), CenterOfGate(results.channels_data.ch_gate[k])} :
     k \in DOMAIN results.channels_data.gate}

\* some channel of the returned chart joins the centers a and b
ConnectedBy(a, b) ==
  {a, b} \in ReportedCenterPairs

\* C1 (as claimed): a gate pair of the adjacency table is among the returned
\* channels if and only if both its gates are among the 26 activated gates.
C1_ChannelIffBothGatesActivated ==
  Done =>
    \A i \in DOMAIN GATES_CHAKRA_DICT :
      LET g == GATES_CHAKRA_DICT[i][1][1]
          p == GATES_CHAKRA_DICT[i][1][2]
      IN  ({g, p} \in ReportedPairs) <=> ({g, p} \subseteq ActivatedGates)

\* C2: the defined centers are exactly the centers of the two gates of the
\* returned channels.
C2_DefinedCentersAreChannelEndpoints ==
  Done => DefinedCenters = UNION ReportedCenterPairs

\* C2 case: a chart with two channels or more over three centers or more
C2_SeveralChannelsReturned ==
  /\ Done
  /\ Len(results.channels_data.gate) >= 2
  /\ Cardinality(DefinedCenters) >= 3

\* C3 (as claimed): the split is never negative.
C3_SplitNonNegative ==
  Done => results.split >= 0

\* C4 (as claimed): the split is the number of defined centers minus the
\* number of channels of the returned active-channel list.
C4_SplitIsCentersMinusChannels ==
  Done =>
    results.split = Cardinality(DefinedCenters) - Len(results.active_channels)

\* C4 (amended): the split is the number of defined centers minus the number
\* of distinct unordered pairs of centers the returned channels join.
C4_SplitIsCentersMinusCenterPairs ==
  Done =>
    results.split = Cardinality(DefinedCenters) - Cardinality(ReportedCenterPairs)

\* C4 case: two returned channels join the same two centers
C4_TwoChannelsSameCenters ==
  /\ Done
  /\ Len(results.active_channels) > Cardinality(ReportedCenterPairs)

\* the energy type by the first-match procedure, from the defined centers D
EnergyTypeByProcedure(D) ==
  IF D = {} THEN "REFLECTOR"
  ELSE IF "SL" \notin D THEN
    IF "TT" \notin D THEN "PROJECTOR"
    ELSE IF ConnectedBy("HT", "TT") \/ ConnectedBy("SP", "TT") \/ ConnectedBy("RT", "TT")
      THEN "MANIFESTOR"
    ELSE "PROJECTOR"
  ELSE
    IF "TT" \notin D THEN "GENERATOR"
    ELSE IF \/ ConnectedBy("HT", "TT") \/ ConnectedBy("SP", "TT")
            \/ ConnectedBy("RT", "TT") \/ ConnectedBy("SL", "TT")
      THEN "MANIFESTING GENERATOR"
    ELSE "GENERATOR"

\* C5: the energy type of the chart is the one the first-match procedure
\* gives for its defined centers and channels.
C5_EnergyTypeFollowsProcedure ==
  Done => results.energy_type = EnergyTypeByProcedure(DefinedCenters)

\* C5 case: Sacral and Throat both defined and no motor joined to the Throat
C5_GeneratorWithThroat ==
  /\ Done
  /\ {"SL", "TT"} \subseteq DefinedCenters
  /\ results.energy_type = "GENERATOR"

\* the authority by the fixed order of rules, from the defined centers D
AuthorityByOrder(D) ==
  IF "SP" \in D THEN "SP"
  ELSE IF "SL" \in D THEN "SL"
  ELSE IF "SN" \in D THEN "SN"
  ELSE IF ConnectedBy("HT", "TT") THEN "HT"
  ELSE IF ConnectedBy("GC", "TT") THEN "GC"
  ELSE IF {"GC", "HT"} \subseteq D THEN "HT_GC"
  ELSE IF D = {} THEN "lunar"
  ELSE IF D \cap {"HD", "AA", "TT"} # {} THEN "outher_auth"
  ELSE "unknown"

\* C6: the authority of the chart is the first rule of the fixed order that
\* matches its defined centers and channels.
C6_AuthorityFirstMatch ==
  Done => results.authority = AuthorityByOrder(DefinedCenters)

\* C6 case: Solar Plexus and Sacral both defined, the first rule decides
C6_SolarPlexusAndSacralDefined ==
  /\ Done
  /\ {"SP", "SL"} \subseteq DefinedCenters
  /\ results.authority = "SP"

\* C7: defined and undefined centers are disjoint and make up the 9 centers.
C7_CentersPartition ==
  Done =>
    /\ DefinedCenters \cap UndefinedCenters = {}
    /\ DefinedCenters \cup UndefinedCenters
         = {"HD", "AA", "TT", "GC", "HT", "SP", "SN", "SL", "RT"}

\* C7 case: a chart with defined and with undefined centers
C7_SomeDefinedSomeUndefined ==
  /\ Done
  /\ DefinedCenters # {}
  /\ UndefinedCenters # {}

\* the lines of the personality Sun and of the design Sun of the chart
SunLines ==
  <<results.all_gate_data.line[1],
    results.all_gate_data.line[(Len(results.all_gate_data.line) \div 2) + 1]>>

\* C8 (as claimed): when the Sun lines (a,b) are an entry of the cross-type
\* table, the cross type of the chart is the one looked up for (b,a).
C8_CrossTypeSameForReversedPair ==
  (Done /\ SunLines \in Range(Keys(IC_CROSS_TYP))) =>
    results.cross_type = cross_type_of(Reverse(SunLines))

\* C8 (amended): when the Sun lines (a,b) are an entry of the cross-type table
\* and (b,a) is not, the cross type of the chart is the one looked up for
\* (b,a); when (b,a) is an entry too, which is so for (1,4), (2,5), (3,6) and
\* their reversed pairs, the two cross types differ.
C8_CrossTypeSameUnlessReversedIsEntry ==
  (Done /\ SunLines \in Range(Keys(IC_CROSS_TYP))) =>
    IF Reverse(SunLines) \notin Range(Keys(IC_CROSS_TYP))
      THEN results.cross_type = cross_type_of(Reverse(SunLines))
      ELSE /\ results.cross_type # cross_type_of(Reverse(SunLines))
           /\ {SunLines[1], SunLines[2]} \in {{1, 4}, {2, 5}, {3, 6}}

\* C8 case: Sun lines that are an entry whose reversed pair is not one
C8_EntryWithoutReversedEntry ==
  /\ Done
  /\ SunLines \in Range(Keys(IC_CROSS_TYP))
  /\ Reverse(SunLines) \notin Range(Keys(IC_CROSS_TYP))

\* C9: the doubly-oriented adjacency table maps every source pair (a,b) to its
\* centers (c1,c2) and (b,a) to (c2,c1); the meaning lookup gives the source
\* name and description for (a,b) and for (b,a); and every channel of a chart
\* carries the centers and the meaning of its pair in either orientation.
C9_LookupsSymmetric ==
  /\ \A i \in DOMAIN GATES_CHAKRA_DICT :
       LET k == GATES_CHAKRA_DICT[i][1]
           c == GATES_CHAKRA_DICT[i][2]
       IN  /\ dict_get(FULL_DICT.full_ch_gates_chakra_dict, k, <<>>) = c
           /\ dict_get(FULL_DICT.full_ch_gates_chakra_dict, Reverse(k), <<>>) = Reverse(c)
  /\ \A i \in DOMAIN CHANNEL_MEANING_DICT :
       LET k == CHANNEL_MEANING_DICT[i][1]
           m == CHANNEL_MEANING_DICT[i][2]
       IN  /\ dict_get(full_meaning_dict, k, <<"Unknown", "Unknown">>) = m
           /\ dict_get(full_meaning_dict, Reverse(k), <<"Unknown", "Unknown">>) = m
  /\ Done =>
       \A n \in DOMAIN results.channels_data.gate :
         LET cd == results.channels_data
         IN  \E i \in DOMAIN CHANNEL_MEANING_DICT :
               /\ CHANNEL_MEANING_DICT[i][1] \in
                    {<<cd.gate[n], cd.ch_gate[n]>>, <<cd.ch_gate[n], cd.gate[n]>>}
               /\ cd.meaning[n] = CHANNEL_MEANING_DICT[i][2]

\* C9 case: a channel returned in the orientation the source tables do not hold
C9_ChannelInReversedOrientation ==
  /\ Done
  /\ \E n \in DOMAIN results.channels_data.gate :
       /\ <<results.channels_data.gate[n], results.channels_data.ch_gate[n]>>
            \notin Range(Keys(CHANNEL_MEANING_DICT))
       /\ <<results.channels_data.ch_gate[n], results.channels_data.gate[n]>>
            \in Range(Keys(CHANNEL_MEANING_DICT))

\* the gates the 26 bodies stand in, from the ephemeris
InputGates ==
  Range(date_to_gate(swe_calc_ut(birth_julday), "prs").gate) \cup Range(date_to_gate(swe_calc_ut(birth_julday), "des").gate)

\* no two of the gates form a pair of the adjacency table
NoAdjacentPair(gates) ==
  \A i \in DOMAIN GATES_CHAKRA_DICT :
    ~ ({GATES_CHAKRA_DICT[i][1][1], GATES_CHAKRA_DICT[i][1][2]} \subseteq gates)

\* C10: when no two activated gates form a pair of the adjacency table, the
\* call raises nothing and the chart has no defined center, no channel, type
\* REFLECTOR, authority lunar and split 0.
C10_NoPairGivesReflector ==
  (pc = "done" /\ NoAdjacentPair(InputGates)) =>
    /\ ~error
    /\ DefinedCenters = {}
    /\ results.active_channels = <<>>
    /\ results.energy_type = "REFLECTOR"
    /\ results.authority = "lunar"
    /\ results.split = 0

\* C10 case: the call has returned for gates without an adjacent pair
C10_CallOnGatesWithoutPair ==
  /\ pc = "done"
  /\ NoAdjacentPair(InputGates)

\* S with the centers joined to it, in at most n rounds, by the channels that
\* join the center pairs in pairs
RECURSIVE Grow(_, _, _)
Grow(S, pairs, n) ==
  IF n = 0 THEN S
  ELSE Let(S \cup UNION {e \in pairs : e \cap S # {}},
           LAMBDA T : IF T = S THEN S ELSE Grow(T, pairs, n - 1))

\* the groups of defined centers the returned channels hold together
Components ==
  Let(ReportedCenterPairs,
      LAMBDA pairs : {Grow({c}, pairs, Len(CHAKRA_LIST)) : c \in DefinedCenters})

\* C11 (as claimed): when the returned channels form two groups that share no
\* center, the split is greater than 0.
C11_TwoComponentsSplitPositive ==
  (Done /\ Cardinality(Components) = 2) => results.split > 0

(***************************************************************************)
(* The angle mapper on longitudes of any turn                              *)
(***************************************************************************)
\* number of whole turns added to or taken from a longitude
MaxTurns == 2

\* the birth Sun at the start, in the middle or at the end of any gate, any
\* number of turns away; no other body varies
InitAngle ==
  /\ \E g \in Range(ICHING_CIRCLE_LIST) :
       \E o \in {0, Circle \div 128, (Circle \div 64) - 1} :
         \E k \in (0 - MaxTurns)..MaxTurns :
           ephem = Ephem(GateLon(g) + o + k * Circle, NodeLon, <<>>)
  /\ OneCallAtMidnight
  /\ pc = "call"
  /\ results = <<>>
  /\ error = FALSE

SpecAngle ==
  InitAngle /\ [][Next]_vars

\* the gates of the birth bodies for the birth Sun brought back to [0, 360)
GatesOfFirstTurn ==
  date_to_gate([ephem EXCEPT !.prs = [code \in DOMAIN ephem.prs |-> ephem.prs[code] % Circle]],
               "prs").gate

NumTones == 2

\* the tones tried, those at the two sides of the limit first
ToneChoices ==
  <<3, 4, 1, 6, 2, 5>>

\* the longitude of tone tone (of color 1) of line line of gate g
LineToneLon(g, line, tone) ==
  GateLon(g) + (line - 1) * (Circle \div (64 * 6)) + (tone - 1) * (Circle \div (64 * 6 * 6 * 6))

\* the Suns and the Nodes of the two days at the given longitudes, every other
\* body with the Sun of its day
EphemLines(sun_prs, node_prs, sun_des, node_des) ==
  [label \in {"prs", "des"} |->
     [code \in Codes |->
        IF code = 11 THEN (IF label = "prs" THEN node_prs ELSE node_des)
        ELSE (IF label = "prs" THEN sun_prs ELSE sun_des)]]

\* the birth Sun in any line of gate 1 and the design Sun in any line of gate
\* 7, the Nodes in gate 21, each in any of NumTones tones
InitLines ==
  /\ \E a \in 1..6, b \in 1..6 :
       \E t \in [1..4 -> {ToneChoices[i] : i \in 1..NumTones}] :
         ephem = EphemLines(LineToneLon(1, a, t[1]), LineToneLon(21, 1, t[2]),
                            LineToneLon(7, b, t[3]), LineToneLon(21, 1, t[4]))
  /\ OneCallAtMidnight
  /\ pc = "call"
  /\ results = <<>>
  /\ error = FALSE

SpecLines ==
  InitLines /\ [][Next]_vars

\* profile in IC_CROSS_TYP.keys()
IsCrossKey(profile) ==
  \E i \in DOMAIN IC_CROSS_TYP : IC_CROSS_TYP[i][1] = profile

\* C13: the profile is the pair (personality Sun line, design Sun line) when
\* that pair is a key of the cross-type table and the reversed pair whenever it
\* is not, also when the reversed pair is no key either; the profile string is
\* the two lines with '/' between them.
C13_ProfileReversedUnlessKey ==
  Done =>
    results.profile = IF IsCrossKey(SunLines)
                        THEN <<SunLines[1], "/", SunLines[2]>>
                        ELSE <<SunLines[2], "/", SunLines[1]>>

\* C13 case: two different Sun lines, neither the pair nor the reversed pair a
\* key
C13_NeitherOrderIsKey ==
  /\ Done
  /\ SunLines[1] # SunLines[2]
  /\ ~IsCrossKey(SunLines)
  /\ ~IsCrossKey(Reverse(SunLines))

\* the table entry of the Sun lines, else that of the reversed lines, else
\* Unknown
CrossTypeByTable ==
  IF IsCrossKey(SunLines)
    THEN IC_CROSS_TYP[CHOOSE i \in DOMAIN IC_CROSS_TYP : IC_CROSS_TYP[i][1] = SunLines][2]
  ELSE IF IsCrossKey(Reverse(SunLines))
    THEN IC_CROSS_TYP[CHOOSE i \in DOMAIN IC_CROSS_TYP : IC_CROSS_TYP[i][1] = Reverse(SunLines)][2]
  ELSE "Unknown"

\* C14: the incarnation cross is '(pSunGate,pEarthGate)-(dSunGate,dEarthGate)-T'
\* from the activations 0, 1, 13 and 14, T the table entry of the Sun lines,
\* else of the reversed lines, else Unknown; cross_type is T and is one of RAC,
\* LAC, JXP, Unknown.
C14_CrossFromSunsAndEarths ==
  Done =>
    /\ results.incarnation_cross =
         << results.all_gate_data.gate[1], results.all_gate_data.gate[2],
            results.all_gate_data.gate[14], results.all_gate_data.gate[15], CrossTypeByTable >>
    /\ results.all_gate_data.planets[1] = "Sun" /\ results.all_gate_data.label[1] = "prs"
    /\ results.all_gate_data.planets[2] = "Earth" /\ results.all_gate_data.label[2] = "prs"
    /\ results.all_gate_data.planets[14] = "Sun" /\ results.all_gate_data.label[14] = "des"
    /\ results.all_gate_data.planets[15] = "Earth" /\ results.all_gate_data.label[15] = "des"
    /\ results.cross_type = CrossTypeByTable
    /\ results.cross_type \in {"RAC", "LAC", "JXP", "Unknown"}

\* C14 case: Sun lines with no entry in either order, four different gates
C14_CrossTypeUnknown ==
  /\ Done
  /\ results.cross_type = "Unknown"
  /\ Cardinality({results.incarnation_cross[i] : i \in 1..4}) = 4

\* 'left' for a tone of at most 3, else 'right'
SideOfTone(tone) ==
  IF tone <= 3 THEN "left" ELSE "right"

\* C15: right_up, right_down, left_up and left_down are the sides of the tones
\* of the personality Sun (activation 0), the personality North Node (3), the
\* design Sun (13) and the design North Node (16); the side is 'left' exactly
\* when the tone is at most 3.
C15_VariablesFromTones ==
  Done =>
    /\ DOMAIN results.variables = {"right_up", "right_down", "left_up", "left_down"}
    /\ results.variables["right_up"] = SideOfTone(results.all_gate_data.tone[1])
    /\ results.variables["right_down"] = SideOfTone(results.all_gate_data.tone[4])
    /\ results.variables["left_up"] = SideOfTone(results.all_gate_data.tone[14])
    /\ results.variables["left_down"] = SideOfTone(results.all_gate_data.tone[17])
    /\ results.all_gate_data.planets[4] = "North_Node" /\ results.all_gate_data.label[4] = "prs"
    /\ results.all_gate_data.planets[17] = "North_Node" /\ results.all_gate_data.label[17] = "des"

\* C15 case: the four tones at the limit, 3 and 4 in turn
C15_TonesAtTheLimit ==
  /\ Done
  /\ results.all_gate_data.tone[1] = 3
  /\ results.all_gate_data.tone[4] = 4
  /\ results.all_gate_data.tone[14] = 4
  /\ results.all_gate_data.tone[17] = 3

\* C16: no unordered gate pair is in the active channels more than once,
\* neither (g,p) twice nor (g,p) with (p,g), and no active channel has the
\* partner gate 0, also when a gate is activated by several bodies and in both
\* charts.
C16_ChannelsUniqueAndPaired ==
  Done =>
    /\ \A k \in DOMAIN results.active_channels :
         /\ results.active_channels[k][3] # 0
         /\ results.active_channels[k] =
              <<results.channels_data.gate[k], "/", results.channels_data.ch_gate[k]>>
    /\ \A k, j \in DOMAIN results.active_channels :
         k # j => {results.active_channels[k][1], results.active_channels[k][3]}
                    # {results.active_channels[j][1], results.active_channels[j][3]}

\* C16 case: a gate activated in both charts whose channel is found from both
\* of its ends, beside activations that have no partner
C16_SameChannelFromBothEnds ==
  /\ Done
  /\ \E i, j, k \in DOMAIN results.all_gate_data.gate :
       /\ results.all_gate_data.gate[i] = results.all_gate_data.gate[j]
       /\ results.all_gate_data.label[i] # results.all_gate_data.label[j]
       /\ results.all_gate_data.ch_gate[i] # 0
       /\ results.all_gate_data.gate[k] = results.all_gate_data.ch_gate[i]
       /\ results.all_gate_data.ch_gate[k] = results.all_gate_data.gate[i]
  /\ \E i \in DOMAIN results.all_gate_data.gate : results.all_gate_data.ch_gate[i] = 0

\* the activations as date_to_gate gives them for the two days, before
\* get_channels_and_centers is called
ActivationsBefore ==
  Let(date_to_gate(swe_calc_ut(birth_julday), "prs"),
      LAMBDA birth_planets :
  Let(date_to_gate(swe_calc_ut(birth_julday), "des"),
      LAMBDA design_planets :
    dict([key \in DOMAIN birth_planets |-> birth_planets[key] \o design_planets[key]])))

\* C20: get_channels_and_centers leaves the body, the label, the longitude,
\* the gate, the line, the color, the tone and the base of every activation as
\* they were and the activations 26 in number; only ch_gate is written.
C20_OnlyPartnerGateWritten ==
  Done =>
    Let(ActivationsBefore,
        LAMBDA before :
      /\ DOMAIN results.all_gate_data = DOMAIN before
      /\ \A key \in DOMAIN before \ {"ch_gate"} : results.all_gate_data[key] = before[key]
      /\ \A key \in DOMAIN results.all_gate_data : Len(results.all_gate_data[key]) = 26
      /\ DOMAIN before =
           {"label", "planets", "lon", "gate", "line", "color", "tone", "base", "ch_gate"})

\* C20 case: a call that wrote a partner gate
C20_PartnerGateWritten ==
  /\ Done
  /\ results.all_gate_data.ch_gate # ActivationsBefore.ch_gate

(***************************************************************************)
(* The lookups of a chart, for two bodies in any two gates                 *)
(***************************************************************************)
\* the birth Sun at the start of gate 1, the Node in gate 21; the Moon of the
\* birth day and the Moon of the design day in any gates
InitPairs ==
  /\ \E f \in [{1, 2} -> Range(ICHING_CIRCLE_LIST)] : ephem = Ephem(GateLon(1), NodeLon, f)
  /\ OneCallAtMidnight
  /\ pc = "call"
  /\ results = <<>>
  /\ error = FALSE

SpecPairs ==
  InitPairs /\ [][Next]_vars

\* C19: no lookup of a chart raises, and each gives an entry of its table or
\* Unknown: the strategy of the energy type, the name of the authority, the
\* meaning of each channel, the cross type of the Sun lines, the center of
\* each gate of a channel.
C19_LookupsFindOrUnknown ==
  pc = "done" =>
    /\ ~error
    /\ results.strategy \in Range(Values(STRATEGY_BY_TYPE)) \cup {"Unknown"}
    /\ results.authority_name \in Range(Values(AUTHORITY_DESCRIPTIONS)) \cup {"Unknown"}
    /\ results.cross_type \in Range(Values(IC_CROSS_TYP)) \cup {"Unknown"}
    /\ \A k \in DOMAIN results.channels_data.gate :
         /\ results.channels_data.meaning[k]
              \in Range(Values(CHANNEL_MEANING_DICT)) \cup {<<"Unknown", "Unknown">>}
         /\ results.channels_data.gate_chakra[k] \in Range(CHAKRA_LIST)
         /\ results.channels_data.ch_gate_chakra[k] \in Range(CHAKRA_LIST)

\* C19 case: a chart with a channel between the gates of the two Moons
C19_LookupsOnChannelOfTheMoons ==
  /\ pc = "done"
  /\ \E k \in DOMAIN results.channels_data.gate :
       {results.channels_data.gate[k], results.channels_data.ch_gate[k]}
         = {results.all_gate_data.gate[3], results.all_gate_data.gate[16]}

(***************************************************************************)
(* The time of birth: local hour, offset and zone name                     *)
(***************************************************************************)
\* the birth in any of the first NumHours local hours of the day, with any of
\* the offsets and with no zone name or any of the names; the Moon of the
\* birth day and the Moon of the design day at the start of any gate of the
\* pool at 0h UTC
InitTime ==
  /\ \E f \in [1..2 -> Pool] : ephem = Ephem(GateLon(1), NodeLon, f)
  /\ \E hour \in 0..(NumHours - 1) :
       \E tz_offset \in Range(Values(PYTZ_UTCOFFSET)) :
         timestamp = <<2000, 1, 1, hour, 0, 0, tz_offset>>
  /\ timezone_info \in {None} \cup Range(Keys(PYTZ_UTCOFFSET))
  /\ hash_seed = 0
  /\ process = 1
  /\ birth_julday = None
  /\ previous = <<>>
  /\ call_args = <<>>
  /\ connected = FALSE
  /\ pc = "call"
  /\ results = <<>>
  /\ error = FALSE

SpecTime ==
  InitTime /\ [][Next]_vars

\* the Julian day of the timestamp with the offset of the zone timezone_info
\* in the place of its seventh element
JuldayOfNamedZone ==
  timestamp_to_juldate([timestamp EXCEPT
                          ![7] = get_utc_offset_from_tz(SubSeq(timestamp, 1, 6), timezone_info)])

\* C18 (as claimed): when a zone name is given, the birth Julian day, and so
\* the chart, is computed with the offset of the named zone and not with the
\* seventh element of the timestamp.
C18_ZoneNameOverridesOffset ==
  (Done /\ timezone_info # None) =>
    /\ birth_julday = JuldayOfNamedZone
    /\ results = chart(swe_calc_ut(JuldayOfNamedZone)).results

(***************************************************************************)
(* The chart asked for twice                                               *)
(***************************************************************************)
\* the birth Sun at the start of gate 1, the Node in gate 33, the Moon of the
\* birth day and the Moon of the design day anywhere in the pool; the process
\* with any string hashing
InitTwice ==
  /\ \E f \in [1..2 -> Pool] : ephem = Ephem(GateLon(1), ChannelNodeLon, f)
  /\ timestamp = <<2000, 1, 1, 0, 0, 0, 0>>
  /\ timezone_info = None
  /\ hash_seed \in 0..(NumSeeds - 1)
  /\ process = 1
  /\ birth_julday = None
  /\ previous = <<>>
  /\ call_args = <<>>
  /\ connected = FALSE
  /\ pc = "call"
  /\ results = <<>>
  /\ error = FALSE

NextTwice ==
  \/ calculate_human_design
  \/ call_again
  \/ restart_and_call

SpecTwice ==
  InitTwice /\ [][NextTwice]_vars

\* a second chart has been returned for the inputs of the kept one
SecondChart ==
  Done /\ previous # <<>>

\* the derived fields of a chart
DerivedFields ==
  {"energy_type", "strategy", "authority", "profile", "incarnation_cross", "defined_centers",
   "undefined_centers", "split", "variables", "active_gates", "active_channels"}

NumLinks == 5

\* channels of their own for the bodies: Head-Ajna, Ajna-Throat, Head-Ajna
\* again, G-Throat, Heart-Throat, Ajna-Throat again
LinkChannels ==
  << <<64, 47>>, <<17, 62>>, <<61, 24>>, <<31, 7>>, <<21, 45>>, <<23, 43>> >>

\* the birth Sun at the start of gate 1, the Node in gate 21; for each of
\* NumLinks channels a body stands either with the Sun on both days or in one
\* gate of the channel at birth and in the other on the design day
InitLinks ==
  /\ \E on \in SUBSET (1..NumLinks) :
       ephem = Ephem(GateLon(1), NodeLon,
                     [k \in UNION {{2 * j - 1, 2 * j} : j \in on} |->
                        LinkChannels[(k + 1) \div 2][2 - (k % 2)]])
  /\ OneCallAtMidnight
  /\ pc = "call"
  /\ results = <<>>
  /\ error = FALSE

\* the tuples of two and of three different chakras
ArgTuples ==
  {a \in [1..2 -> Range(CHAKRA_LIST)] \cup [1..3 -> Range(CHAKRA_LIST)] :
     \A i, j \in DOMAIN a : i # j => a[i] # a[j]}

\* is_connected(channels_dict, *args) asked of the channels of the chart
is_connected_call ==
  /\ pc = "done"
  /\ ~error
  /\ \E a \in ArgTuples :
       /\ call_args' = a
       /\ connected' = is_connected(results.channels_data, a)
  /\ pc' = "asked"
  /\ UNCHANGED <<ephem, timestamp, timezone_info, hash_seed, process, birth_julday, results,
                 previous, error>>

NextLinks ==
  \/ calculate_human_design
  \/ is_connected_call

SpecLinks ==
  InitLinks /\ [][NextLinks]_vars

\* is_connected has answered
Asked ==
  pc = "asked"

\* the channels of the chart whose two centers are both among the chakras
\* asked about
ChannelsWithin ==
  {k \in DOMAIN results.channels_data.gate :
     {CenterOfGate(results.channels_data.gate[k]),
      CenterOfGate(results.channels_data.ch_gate[k])} \subseteq Range(call_args)}

\* C22: asked about two centers A and B, is_connected answers false when the
\* chart has no channel, and otherwise true exactly when a channel of the
\* chart has one end in A and the other in B.
C22_TwoCentersDirectChannel ==
  (Asked /\ Len(call_args) = 2) =>
    /\ Len(results.channels_data.gate) = 0 => ~connected
    /\ connected <=> ConnectedBy(call_args[1], call_args[2])

\* C22 case: two centers with a channel between them, in a chart that has
\* other channels too
C22_AskedOfJoinedCenters ==
  /\ Asked
  /\ Len(call_args) = 2
  /\ connected
  /\ Cardinality(ReportedCenterPairs) >= 2

\* C23 (as claimed): asked about three centers, is_connected answers true
\* exactly when at least two of them are ends of channels of the chart that
\* have both ends among the three.
C23_ThreeCentersByCentersReached ==
  (Asked /\ Len(call_args) = 3) =>
    (connected <=>
       Cardinality({c \in Range(call_args) :
                      \E k \in ChannelsWithin :
                        c \in {CenterOfGate(results.channels_data.gate[k]),
                               CenterOfGate(results.channels_data.ch_gate[k])}}) >= 2)

\* C23 (amended): asked about three centers, is_connected answers true exactly
\* when at least two channels of the chart have both ends among the three; two
\* channels between the same two centers are two.
C23_ThreeCentersByChannelsWithin ==
  (Asked /\ Len(call_args) = 3) =>
    (connected <=> Cardinality(ChannelsWithin) >= 2)

\* C23 case: three centers of which two are joined by two channels and the
\* third by none
C23_TwoChannelsBetweenTwoOfThree ==
  /\ Asked
  /\ Len(call_args) = 3
  /\ connected
  /\ Cardinality(ChannelsWithin) = 2
  /\ \E c \in Range(call_args) : c \notin DefinedCenters

\* the second center asked about is reached from the first over channels of
\* the chart
JoinedByPath ==
  call_args[2] \in Grow({call_args[1]}, ReportedCenterPairs, Len(CHAKRA_LIST))

\* C25 (as claimed): is_connected answers true for two centers joined by a
\* path of channels through other defined centers, not only for two centers
\* joined by one channel.
C25_TwoCentersJoinedByPath ==
  (Asked /\ Len(call_args) = 2 /\ JoinedByPath) => connected

\* C24 (as claimed): the split is 0 when the defined centers form a single
\* group under the returned channels, and a split greater than 0 goes with
\* more than one group.
C24_SplitTellsGroups ==
  Done =>
    /\ Cardinality(Components) = 1 => results.split = 0
    /\ results.split > 0 => Cardinality(Components) > 1

\* C26: get_authority never returns the code 'unknown': a set of defined
\* centers that is not empty and holds none of Solar Plexus, Sacral and Spleen
\* holds the Head, the Ajna or the Throat, or both the G center and the Heart.
C26_AuthorityNeverUnknown ==
  Done =>
    /\ results.authority # "unknown"
    /\ (DefinedCenters # {} /\ DefinedCenters \cap {"SP", "SL", "SN"} = {}) =>
         \/ DefinedCenters \cap {"HD", "AA", "TT"} # {}
         \/ {"GC", "HT"} \subseteq DefinedCenters

\* C26 case: the G center and the Heart are the only defined centers
C26_OnlyGAndHeartDefined ==
  /\ Done
  /\ DefinedCenters = {"GC", "HT"}

\* C27: the list of active channels is empty, the set of defined centers is
\* empty, the energy type is REFLECTOR and the authority is lunar, all four or
\* none.
C27_ReflectorEquivalences ==
  Done =>
    /\ (Len(results.active_channels) = 0) <=> (DefinedCenters = {})
    /\ (DefinedCenters = {}) <=> (results.energy_type = "REFLECTOR")
    /\ (results.energy_type = "REFLECTOR") <=> (results.authority = "lunar")

\* C27 case: a chart with no channel, returned as a lunar Reflector
C27_ReflectorChart ==
  /\ Done
  /\ Len(results.channels_data.gate) = 0
  /\ results.energy_type = "REFLECTOR"
  /\ results.authority = "lunar"

\* C28: the energy type is GENERATOR or MANIFESTING GENERATOR exactly when the
\* Sacral is defined, and then the authority is SP or SL, SL exactly when the
\* Solar Plexus is undefined.
C28_SacralGivesGenerator ==
  Done =>
    /\ (results.energy_type \in {"GENERATOR", "MANIFESTING GENERATOR"}) <=> ("SL" \in DefinedCenters)
    /\ "SL" \in DefinedCenters =>
         /\ results.authority \in {"SP", "SL"}
         /\ (results.authority = "SL") <=> ("SP" \notin DefinedCenters)

\* C28 case: the Sacral defined without the Throat and without the Solar
\* Plexus
C28_SacralWithoutThroat ==
  /\ Done
  /\ "SL" \in DefinedCenters
  /\ DefinedCenters \cap {"TT", "SP"} = {}
  /\ results.energy_type = "GENERATOR"
  /\ results.authority = "SL"

\* number of channels of MotorChannels a chart can close
NumMotors == 7

\* channels at the Throat, the Root, the Sacral and the Heart: 21/45 Heart -
\* Throat, 35/36 and 12/22 Throat - Solar Plexus, 20/34 Throat - Sacral, 39/55
\* Root - Solar Plexus, 17/62 Ajna - Throat, 53/42 Root - Sacral, 25/51 G -
\* Heart
MotorChannels ==
  << <<21, 45>>, <<35, 36>>, <<20, 34>>, <<39, 55>>, <<17, 62>>, <<53, 42>>, <<25, 51>>,
     <<12, 22>> >>

\* any of the first NumMotors channels of MotorChannels closed by the varying
\* bodies
InitMotors ==
  /\ \E on \in SUBSET (1..NumMotors) :
       ephem = Ephem(GateLon(1), NodeLon,
                     [k \in UNION {{2 * j - 1, 2 * j} : j \in on} |->
                        MotorChannels[(k + 1) \div 2][2 - (k % 2)]])
  /\ OneCallAtMidnight
  /\ pc = "call"
  /\ results = <<>>
  /\ error = FALSE

SpecMotors == InitMotors /\ [][Next]_vars

\* C29: no channel of the table joins the Root and the Throat, is_connected of
\* Root and Throat is false on every chart, a MANIFESTOR chart has a channel
\* Heart - Throat or Solar Plexus - Throat, and a MANIFESTING GENERATOR chart
\* has a channel Heart - Throat, Solar Plexus - Throat or Sacral - Throat.
C29_RootNeverDecidesType ==
  /\ \A i \in DOMAIN GATES_CHAKRA_DICT :
       {GATES_CHAKRA_DICT[i][2][1], GATES_CHAKRA_DICT[i][2][2]} # {"RT", "TT"}
  /\ Done =>
       Let(ReportedCenterPairs,
           LAMBDA pairs :
             /\ ~is_connected(results.channels_data, <<"RT", "TT">>)
             /\ results.energy_type = "MANIFESTOR" =>
                  ({"HT", "TT"} \in pairs \/ {"SP", "TT"} \in pairs)
             /\ results.energy_type = "MANIFESTING GENERATOR" =>
                  ({"HT", "TT"} \in pairs \/ {"SP", "TT"} \in pairs \/ {"SL", "TT"} \in pairs))

\* C29 case: Root and Throat defined with no channel from the Heart, the Solar
\* Plexus or the Sacral to the Throat, so that the Root is the last to be asked
C29_RootAndThroatDefined ==
  /\ Done
  /\ {"RT", "TT"} \subseteq DefinedCenters
  /\ ~ConnectedBy("HT", "TT")
  /\ ~ConnectedBy("SP", "TT")
  /\ ~ConnectedBy("SL", "TT")
  /\ results.energy_type \in {"PROJECTOR", "GENERATOR"}

(***************************************************************************)
(* Two charts whose activations stand in the same gates                    *)
(***************************************************************************)
\* number of bodies that vary between the two charts
NumMoved == 3

\* number of gates of SameGates the varying bodies can stand in
NumSameGates == 4

\* gates with several partners (20, 34, 10, 57) and the partner of gate 1
SameGates ==
  <<20, 34, 10, 57, 8>>

SamePool ==
  {SameGates[i] : i \in 1..NumSameGates}

InitSame ==
  /\ \E f \in [1..NumMoved -> SamePool] : ephem = Ephem(GateLon(1), NodeLon, f)
  /\ OneCallAtMidnight
  /\ pc = "call"
  /\ results = <<>>
  /\ error = FALSE

\* the caller keeps the chart and asks for the chart of another birth, whose
\* varying bodies stand in the same gates in any other arrangement: bodies
\* exchanged within a day or between the days, a gate held by more or fewer
\* bodies
call_rearranged ==
  /\ pc = "done"
  /\ ~error
  /\ previous = <<>>
  /\ \E f \in [1..NumMoved -> SamePool] :
       /\ Range(f) = ActivatedGates \cap SamePool
       /\ ephem' = Ephem(GateLon(1), NodeLon, f)
  /\ previous' = <<results>>
  /\ pc' = "call"
  /\ UNCHANGED <<timestamp, timezone_info, hash_seed, process, birth_julday, results, error,
                 call_args, connected>>

NextSame ==
  \/ calculate_human_design
  \/ call_rearranged

SpecSame ==
  InitSame /\ [][NextSame]_vars

\* the channels of a chart as unordered gate pairs
ChannelPairs(r) ==
  {{r.channels_data.gate[k], r.channels_data.ch_gate[k]} : k \in DOMAIN r.channels_data.gate}

\* the second chart has its activations in the gates of the kept one
SameGateSet ==
  SecondChart /\ ActivatedGates = Range(previous[1].all_gate_data.gate)

\* C30: two charts whose activations stand in the same set of gates have the
\* same set of channels, the same set of defined centers, the same energy
\* type, the same authority and the same split.
C30_ChartDependsOnGateSetOnly ==
  SameGateSet =>
    /\ ChannelPairs(results) = ChannelPairs(previous[1])
    /\ Range(results.defined_centers) = Range(previous[1].defined_centers)
    /\ results.energy_type = previous[1].energy_type
    /\ results.authority = previous[1].authority
    /\ results.split = previous[1].split

\* C30 case: the same gates in another arrangement, gate 20 held by another
\* number of bodies than before, and the channel 20/34 returned
C30_SameGatesOtherArrangement ==
  /\ SameGateSet
  /\ results.all_gate_data.gate # previous[1].all_gate_data.gate
  /\ Len(np_where(results.all_gate_data.gate, 20)) # Len(np_where(previous[1].all_gate_data.gate, 20))
  /\ {20, 34} \in ChannelPairs(results)

====
